---- MODULE Spec2Model ----
(***************************************************************************)
(* A model of dimod's BinaryQuadraticModel (quadratic_model.h): the        *)
(* Neighborhood sparse row, the QuadraticModelBase accessors and the       *)
(* BinaryQuadraticModel mutators.                                          *)
(*                                                                         *)
(* A vector is a sequence: the C++ element x[i] is x[i + 1] here.  A bias  *)
(* is an integer number of 1/Scale, so that the multipliers of             *)
(* change_vartype (2, 4, .5, .25, .125) act exactly, as they do on the     *)
(* small dyadic doubles the model draws.                                   *)
(***************************************************************************)
EXTENDS Integers, Sequences, FiniteSets, TLC

\* The smallest multiplier of change_vartype is .125: one bias unit is 1/8.
Scale == 8

\* ------------------------------------------------------------------------
\* Bounds of the model.

\* The largest number of variables a model holds.
MaxVars == 3
\* The number of operations applied after construction.
MaxOps == 2
\* The largest length of a COO ingestion.
MaxCoo == 2
\* The largest side of a dense matrix given to a model that already exists.
MaxDense == 2

\* the calls that add an entry to a Neighborhood of its own
MaxNb == 4

Vartypes == {"BINARY", "SPIN"}

\* ------------------------------------------------------------------------
\* Sequence helpers (std::vector operations).

\* vector::insert(begin() + idx, x)
InsertAt(s, idx, x) == SubSeq(s, 1, idx) \o <<x>> \o SubSeq(s, idx + 1, Len(s))

\* vector::erase(begin() + first, begin() + last)
EraseAt(s, first, last) == SubSeq(s, 1, first) \o SubSeq(s, last + 1, Len(s))

\* vector::resize(n): truncate, or append value-initialised elements
VecResize(s, n, zero) ==
    IF n <= Len(s) THEN SubSeq(s, 1, n)
    ELSE s \o [i \in 1..(n - Len(s)) |-> zero]

RECURSIVE SeqSum(_)
SeqSum(s) == IF s = <<>> THEN 0 ELSE Head(s) + SeqSum(Tail(s))

\* std::max_element over a non-empty range
RECURSIVE SeqMax(_)
SeqMax(s) ==
    IF Len(s) = 1 THEN s[1]
    ELSE LET m == SeqMax(Tail(s)) IN IF s[1] >= m THEN s[1] ELSE m

\* ------------------------------------------------------------------------
\* Neighborhood: two parallel vectors, neighbors and quadratic_biases.

EmptyNeighborhood == [neighbors |-> <<>>, quadratic_biases |-> <<>>]

size(nb) == Len(nb.neighbors)

\* std::is_sorted: no element is smaller than the one before it.
is_sorted(s) == \A i \in 1..(Len(s) - 1) : ~(s[i + 1] < s[i])

\* std::lower_bound as the library computes it, a bisection of [first,
\* first + len): on a range that is not sorted it still halves the same way.
RECURSIVE bisect(_, _, _, _)
bisect(s, v, first, len) ==
    IF len <= 0 THEN first
    ELSE LET half == len \div 2
             mid  == first + half
         IN  IF s[mid + 1] < v
             THEN bisect(s, v, mid + 1, len - half - 1)
             ELSE bisect(s, v, first, half)

\* Neighborhood::lower_bound: the distance of the iterator from begin().
lower_bound(nb, v) == bisect(nb.neighbors, v, 0, Len(nb.neighbors))

\* Neighborhood::at: the bias, or std::out_of_range.
at(nb, v) ==
    LET idx == lower_bound(nb, v)
    IN  IF idx < size(nb) /\ nb.neighbors[idx + 1] = v
        THEN [thrown |-> "none", value |-> nb.quadratic_biases[idx + 1]]
        ELSE [thrown |-> "out_of_range", value |-> 0]

\* Neighborhood::get: the bias, or the default value.
get(nb, v, value) ==
    LET idx == lower_bound(nb, v)
    IN  IF idx < size(nb) /\ nb.neighbors[idx + 1] = v
        THEN nb.quadratic_biases[idx + 1]
        ELSE value

\* Neighborhood::emplace_back
emplace_back(nb, v, bias) ==
    [neighbors |-> Append(nb.neighbors, v),
     quadratic_biases |-> Append(nb.quadratic_biases, bias)]

\* Neighborhood::erase(v): the neighborhood left and the number removed.
erase(nb, v) ==
    LET idx == lower_bound(nb, v)
    IN  IF idx < size(nb) /\ nb.neighbors[idx + 1] = v
        THEN [nb |-> [neighbors |-> EraseAt(nb.neighbors, idx, idx + 1),
                      quadratic_biases |->
                          EraseAt(nb.quadratic_biases, idx, idx + 1)],
              count |-> 1]
        ELSE [nb |-> nb, count |-> 0]

\* Neighborhood::erase(first, last), the iterators given as distances.
erase_range(nb, first, last) ==
    [neighbors |-> EraseAt(nb.neighbors, first, last),
     quadratic_biases |-> EraseAt(nb.quadratic_biases, first, last)]

\* utils::zip_sort: both vectors reordered so that the keys ascend (an
\* insertion of each entry after the entries whose key is not larger).
RECURSIVE zip_insert(_, _, _)
zip_insert(nb, v, bias) ==
    IF size(nb) = 0 \/ ~(v < nb.neighbors[size(nb)])
    THEN emplace_back(nb, v, bias)
    ELSE LET n    == size(nb)
             init == [neighbors |-> SubSeq(nb.neighbors, 1, n - 1),
                      quadratic_biases |-> SubSeq(nb.quadratic_biases, 1, n - 1)]
         IN  emplace_back(zip_insert(init, v, bias),
                          nb.neighbors[n], nb.quadratic_biases[n])

RECURSIVE zip_sort_from(_, _, _)
zip_sort_from(nb, k, acc) ==
    IF k > size(nb) THEN acc
    ELSE zip_sort_from(nb, k + 1,
                       zip_insert(acc, nb.neighbors[k], nb.quadratic_biases[k]))

zip_sort(nb) == zip_sort_from(nb, 1, EmptyNeighborhood)

\* sort_and_sum, the first loop: walk until neighbors[i] = neighbors[j].
\* Through the loop j = i + 1; the result is i.
RECURSIVE walk(_, _)
walk(nb, i) ==
    IF i + 1 < size(nb) /\ nb.neighbors[i + 1] # nb.neighbors[i + 2]
    THEN walk(nb, i + 1)
    ELSE i

\* the de-duplication loop without the sum: the first bias of a key is kept
RECURSIVE dedup_keep_first(_, _, _)
dedup_keep_first(nb, i, j) ==
    IF j < size(nb)
    THEN IF nb.neighbors[i + 1] = nb.neighbors[j + 1]
         THEN dedup_keep_first(nb, i, j + 1)
         ELSE dedup_keep_first(
                  [nb EXCEPT !.neighbors[i + 2] = nb.neighbors[j + 1],
                             !.quadratic_biases[i + 2] =
                                 nb.quadratic_biases[j + 1]],
                  i + 1, j + 1)
    ELSE [neighbors |-> SubSeq(nb.neighbors, 1, i + 1),
          quadratic_biases |-> SubSeq(nb.quadratic_biases, 1, i + 1)]

\* sort_and_sum, the de-duplication loop, ending with the resize to i + 1.
RECURSIVE dedup(_, _, _)
dedup(nb, i, j) ==
    IF j < size(nb)
    THEN IF nb.neighbors[i + 1] = nb.neighbors[j + 1]
         THEN dedup([nb EXCEPT !.quadratic_biases[i + 1] =
                                   @ + nb.quadratic_biases[j + 1]],
                    i, j + 1)
         ELSE dedup([nb EXCEPT !.neighbors[i + 2] = nb.neighbors[j + 1],
                               !.quadratic_biases[i + 2] =
                                   nb.quadratic_biases[j + 1]],
                    i + 1, j + 1)
    ELSE [neighbors |-> SubSeq(nb.neighbors, 1, i + 1),
          quadratic_biases |-> SubSeq(nb.quadratic_biases, 1, i + 1)]

\* Neighborhood::sort_and_sum
sort_and_sum(nb) ==
    LET sorted == IF ~is_sorted(nb.neighbors) THEN zip_sort(nb) ELSE nb
        i      == walk(sorted, 0)
        j      == i + 1
    IN  IF j < size(sorted) THEN dedup(sorted, i, j) ELSE sorted

\* operator[] with the missing key put at the end
subscript_append(nb, v) ==
    LET idx == lower_bound(nb, v)
    IN  IF idx = size(nb) \/ nb.neighbors[idx + 1] # v
        THEN [nb |-> emplace_back(nb, v, 0), idx |-> size(nb)]
        ELSE [nb |-> nb, idx |-> idx]

\* Neighborhood::operator[]: the neighborhood after the possible insertion
\* and the position the returned reference points to.
subscript(nb, v) ==
    LET idx == lower_bound(nb, v)
    IN  IF idx = size(nb) \/ nb.neighbors[idx + 1] # v
        THEN [nb |-> [neighbors |-> InsertAt(nb.neighbors, idx, v),
                      quadratic_biases |->
                          InsertAt(nb.quadratic_biases, idx, 0)],
              idx |-> idx]
        ELSE [nb |-> nb, idx |-> idx]

\* ------------------------------------------------------------------------
\* QuadraticModelBase: linear_biases_, adj_ and offset_; BinaryQuadraticModel
\* adds vartype_.  Variable v's linear bias is linear_biases_[v + 1] and its
\* row is adj_[v + 1].

\* BinaryQuadraticModel(vartype): no variable, offset 0.
EmptyModel(vartype) ==
    [vartype_ |-> vartype, linear_biases_ |-> <<>>, adj_ |-> <<>>, offset_ |-> 0]

num_variables(m) == Len(m.linear_biases_)

is_linear(m) == \A i \in 1..Len(m.adj_) : size(m.adj_[i]) = 0

RECURSIVE count_sizes(_, _)
count_sizes(adj, k) ==
    IF k > Len(adj) THEN 0 ELSE size(adj[k]) + count_sizes(adj, k + 1)

\* num_interactions(): the row sizes added up, halved by integer division.
num_interactions(m) == count_sizes(m.adj_, 1) \div 2

\* num_interactions(v)
num_interactions_of(m, v) == size(m.adj_[v + 1])

linear(m, v) == m.linear_biases_[v + 1]

quadratic(m, u, v) == get(m.adj_[u + 1], v, 0)

quadratic_at(m, u, v) == at(m.adj_[u + 1], v)

\* remove_interaction: the model left and the value returned.
remove_interaction(m, u, v) ==
    LET eu == erase(m.adj_[u + 1], v)
    IN  IF eu.count # 0
        THEN LET m1 == [m EXCEPT !.adj_[u + 1] = eu.nb]
                 ev == erase(m1.adj_[v + 1], u)
             IN  [bqm |-> [m1 EXCEPT !.adj_[v + 1] = ev.nb],
                  ret |-> (ev.count # 0)]
        ELSE [bqm |-> m, ret |-> FALSE]

\* energy, the inner loop over u's row: it stops at the first neighbor that
\* is not below u.
RECURSIVE energy_row(_, _, _, _)
energy_row(nb, k, u, sample) ==
    IF k <= size(nb) /\ nb.neighbors[k] < u
    THEN sample[u + 1] * sample[nb.neighbors[k] + 1] * nb.quadratic_biases[k]
         + energy_row(nb, k + 1, u, sample)
    ELSE 0

RECURSIVE energy_from(_, _, _)
energy_from(m, u, sample) ==
    IF u < num_variables(m)
    THEN sample[u + 1] * linear(m, u)
         + energy_row(m.adj_[u + 1], 1, u, sample)
         + energy_from(m, u + 1, sample)
    ELSE 0

\* energy(sample), sample a vector of num_variables() values
energy(m, sample) == m.offset_ + energy_from(m, 0, sample)

\* ------------------------------------------------------------------------
\* BinaryQuadraticModel.

\* resize(n)
resize(m, n) ==
    LET trimmed ==
            IF n < num_variables(m)
            THEN [i \in 1..Len(m.adj_) |->
                    IF i <= n
                    THEN erase_range(m.adj_[i], lower_bound(m.adj_[i], n),
                                     size(m.adj_[i]))
                    ELSE m.adj_[i]]
            ELSE m.adj_
    IN  [m EXCEPT !.linear_biases_ = VecResize(m.linear_biases_, n, 0),
                  !.adj_ = VecResize(trimmed, n, EmptyNeighborhood)]

\* BinaryQuadraticModel(n, vartype)
ctor_sized(n, vartype) == resize(EmptyModel(vartype), n)

\* adj_[u][v] += bias, through Neighborhood::operator[]
row_add(nb, v, bias) ==
    LET r == subscript(nb, v)
    IN  [r.nb EXCEPT !.quadratic_biases[r.idx + 1] = @ + bias]

\* adj_[u][v] = bias, through Neighborhood::operator[]
row_set(nb, v, bias) ==
    LET r == subscript(nb, v)
    IN  [r.nb EXCEPT !.quadratic_biases[r.idx + 1] = bias]

\* add_quadratic(u, v, bias) with the self-loop routed without regard to the
\* vartype: always to linear(u)
add_quadratic_binary_only(m, u, v, bias) ==
    IF u = v
    THEN [m EXCEPT !.linear_biases_[u + 1] = @ + bias]
    ELSE LET m1 == [m EXCEPT !.adj_[u + 1] = row_add(@, v, bias)]
         IN  [m1 EXCEPT !.adj_[v + 1] = row_add(@, u, bias)]

\* add_quadratic(u, v, bias) without the test u == v: every term goes to
\* the rows
add_quadratic_to_rows(m, u, v, bias) ==
    LET m1 == [m EXCEPT !.adj_[u + 1] = row_add(@, v, bias)]
    IN  [m1 EXCEPT !.adj_[v + 1] = row_add(@, u, bias)]

\* add_quadratic(u, v, bias) that leaves a pair without an interaction
\* alone when bias is 0
add_quadratic_skip_zero(m, u, v, bias) ==
    IF u = v
    THEN IF m.vartype_ = "BINARY"
         THEN [m EXCEPT !.linear_biases_[u + 1] = @ + bias]
         ELSE [m EXCEPT !.offset_ = @ + bias]
    ELSE IF bias = 0 /\ at(m.adj_[u + 1], v).thrown # "none" THEN m
    ELSE LET m1 == [m EXCEPT !.adj_[u + 1] = row_add(@, v, bias)]
         IN  [m1 EXCEPT !.adj_[v + 1] = row_add(@, u, bias)]

\* add_quadratic(u, v, bias)
add_quadratic(m, u, v, bias) ==
    IF u = v
    THEN IF m.vartype_ = "BINARY"
         THEN [m EXCEPT !.linear_biases_[u + 1] = @ + bias]
         ELSE [m EXCEPT !.offset_ = @ + bias]
    ELSE LET m1 == [m EXCEPT !.adj_[u + 1] = row_add(@, v, bias)]
         IN  [m1 EXCEPT !.adj_[v + 1] = row_add(@, u, bias)]

\* set_quadratic without the test u == v
set_quadratic_never_throws(u, v) == FALSE

\* set_quadratic(u, v, bias) throws std::domain_error when u = v
set_quadratic_throws(u, v) == u = v

\* set_quadratic(u, v, bias), u # v
set_quadratic(m, u, v, bias) ==
    LET m1 == [m EXCEPT !.adj_[u + 1] = row_set(@, v, bias)]
    IN  [m1 EXCEPT !.adj_[v + 1] = row_set(@, u, bias)]

\* dense[u * num_variables + v]
dense_at(dense, n, u, v) == dense[u * n + v + 1]

\* the off-diagonal pass without the test qbias != 0: zero sums are stored
RECURSIVE dense_pairs_keep_zero(_, _, _, _, _)
dense_pairs_keep_zero(m, dense, n, u, v) ==
    IF u >= n THEN m
    ELSE IF v >= n THEN dense_pairs_keep_zero(m, dense, n, u + 1, u + 2)
    ELSE LET qbias == dense_at(dense, n, u, v) + dense_at(dense, n, v, u)
             m1 == [m EXCEPT !.adj_[u + 1] = emplace_back(@, v, qbias),
                             !.adj_[v + 1] = emplace_back(@, u, qbias)]
         IN  dense_pairs_keep_zero(m1, dense, n, u, v + 1)

\* add_quadratic(dense, num_variables), the off-diagonal pass from (u, v) on
RECURSIVE dense_pairs(_, _, _, _, _)
dense_pairs(m, dense, n, u, v) ==
    IF u >= n THEN m
    ELSE IF v >= n THEN dense_pairs(m, dense, n, u + 1, u + 2)
    ELSE LET qbias == dense_at(dense, n, u, v) + dense_at(dense, n, v, u)
             m1 == IF qbias # 0
                   THEN [m EXCEPT
                           !.adj_[u + 1] = emplace_back(@, v, qbias),
                           !.adj_[v + 1] = emplace_back(@, u, qbias)]
                   ELSE m
         IN  dense_pairs(m1, dense, n, u, v + 1)

\* the diagonal pass: offset_ (SPIN) or linear_biases_[v] (BINARY)
RECURSIVE dense_diagonal(_, _, _, _)
dense_diagonal(m, dense, n, v) ==
    IF v >= n THEN m
    ELSE LET d == dense[v * (n + 1) + 1]
         IN  dense_diagonal(
                 IF m.vartype_ = "SPIN"
                 THEN [m EXCEPT !.offset_ = @ + d]
                 ELSE [m EXCEPT !.linear_biases_[v + 1] = @ + d],
                 dense, n, v + 1)

\* add_quadratic(dense, num_variables) without the throw
add_quadratic_dense_never_throws(m) == FALSE

\* add_quadratic(dense, num_variables) throws std::logic_error("not
\* implemented yet") when the model had an interaction
add_quadratic_dense_throws(m) == ~is_linear(m)

\* add_quadratic(dense, num_variables) with the throw after the diagonal pass
add_quadratic_dense_throws_last(m, dense, n) ==
    dense_diagonal(dense_pairs(m, dense, n, 0, 1), dense, n, 0)

\* add_quadratic(dense, num_variables): the model when the call ends, by
\* returning or by throwing after the off-diagonal pass.
add_quadratic_dense(m, dense, n) ==
    LET sort_needed == ~is_linear(m)
        m1 == dense_pairs(m, dense, n, 0, 1)
    IN  IF sort_needed THEN m1 ELSE dense_diagonal(m1, dense, n, 0)

\* BinaryQuadraticModel(dense, num_variables, vartype)
ctor_dense(dense, n, vartype) ==
    add_quadratic_dense(ctor_sized(n, vartype), dense, n)

\* ------------------------------------------------------------------------
\* add_quadratic(row_iterator, col_iterator, bias_iterator, length): the COO
\* arrays are sequences of at least `length` entries.

\* the COO add_quadratic without the test length < 0
add_quadratic_coo_never_throws(length) == FALSE

\* throws std::out_of_range("length must be positive")
add_quadratic_coo_throws(length) == length < 0

\* the resize to max_label + 1
coo_grow(m, rows, cols, length) ==
    IF length > 0
    THEN LET mr == SeqMax(SubSeq(rows, 1, length))
             mc == SeqMax(SubSeq(cols, 1, length))
             max_label == IF mr >= mc THEN mr ELSE mc
         IN  IF max_label >= num_variables(m) THEN resize(m, max_label + 1)
             ELSE m
    ELSE m

\* counts[i]: the number of off-diagonal entries that touch variable i
coo_counts(m, rows, cols, length) ==
    [i \in 1..num_variables(m) |->
        Cardinality({k \in 1..length : rows[k] # cols[k] /\ rows[k] = i - 1})
        + Cardinality({k \in 1..length : rows[k] # cols[k] /\ cols[k] = i - 1})]

\* the second pass, from entry k on
RECURSIVE coo_append(_, _, _, _, _, _)
coo_append(m, rows, cols, biases, length, k) ==
    IF k > length THEN m
    ELSE coo_append(
             IF rows[k] = cols[k]
             THEN add_quadratic(m, rows[k], cols[k], biases[k])
             ELSE LET m1 == [m EXCEPT !.adj_[rows[k] + 1] =
                                          emplace_back(@, cols[k], biases[k])]
                  IN  [m1 EXCEPT !.adj_[cols[k] + 1] =
                                     emplace_back(@, rows[k], biases[k])],
             rows, cols, biases, length, k + 1)

\* add_quadratic(row_iterator, col_iterator, bias_iterator, length), length >= 0
add_quadratic_coo(m, rows, cols, biases, length) ==
    LET m1 == coo_grow(m, rows, cols, length)
        counts == coo_counts(m1, rows, cols, length)
        m2 == coo_append(m1, rows, cols, biases, length, 1)
    IN  [m2 EXCEPT !.adj_ =
            [i \in 1..Len(m2.adj_) |->
                IF counts[i] > 0 THEN sort_and_sum(m2.adj_[i]) ELSE m2.adj_[i]]]

\* ------------------------------------------------------------------------
\* change_vartype.  A multiplier is a number of 1/Scale, like a bias.

Mul(mp, x) == (mp * x) \div Scale

lin_mp(vartype) == IF vartype = "BINARY" THEN 2 * Scale ELSE Scale \div 2
lin_offset_mp(vartype) == IF vartype = "BINARY" THEN -Scale ELSE Scale \div 2
quad_mp(vartype) == IF vartype = "BINARY" THEN 4 * Scale ELSE Scale \div 4
lin_quad_mp(vartype) == IF vartype = "BINARY" THEN -2 * Scale ELSE Scale \div 4
\* the offset multiplier of a whole pair, .25, applied at each endpoint
quad_offset_mp_per_pair(vartype) ==
    IF vartype = "BINARY" THEN Scale \div 2 ELSE Scale \div 4

quad_offset_mp(vartype) == IF vartype = "BINARY" THEN Scale \div 2 ELSE Scale \div 8

\* the loop over the row of variable ui, from its entry k on
RECURSIVE change_row(_, _, _, _)
change_row(m, vartype, ui, k) ==
    IF k > size(m.adj_[ui + 1]) THEN m
    ELSE LET qbias == m.adj_[ui + 1].quadratic_biases[k]
         IN  change_row(
                 [m EXCEPT
                    !.adj_[ui + 1].quadratic_biases[k] =
                        Mul(quad_mp(vartype), @),
                    !.linear_biases_[ui + 1] =
                        @ + Mul(lin_quad_mp(vartype), qbias),
                    !.offset_ = @ + Mul(quad_offset_mp(vartype), qbias)],
                 vartype, ui, k + 1)

\* the loop over the variables, from ui on
RECURSIVE change_from(_, _, _)
change_from(m, vartype, ui) ==
    IF ui >= num_variables(m) THEN m
    ELSE LET lbias == m.linear_biases_[ui + 1]
             m1 == [m EXCEPT
                      !.linear_biases_[ui + 1] = Mul(lin_mp(vartype), @),
                      !.offset_ = @ + Mul(lin_offset_mp(vartype), lbias)]
         IN  change_from(change_row(m1, vartype, ui, 1), vartype, ui + 1)

\* change_vartype(vartype)
change_vartype(m, vartype) ==
    IF vartype = m.vartype_ THEN m
    ELSE [change_from(m, vartype, 0) EXCEPT !.vartype_ = vartype]

\* ------------------------------------------------------------------------
\* add_bqm.

\* the bqm given, added as it is whatever its vartype
not_converted(m, bqm) == bqm

\* the bqm given, or its copy converted to the vartype of m
converted(m, bqm) ==
    IF bqm.vartype_ # m.vartype_ THEN change_vartype(bqm, m.vartype_) ELSE bqm

\* add_bqm(bqm), the quadratic loop: row v of bqm appended to row v of m,
\* which is then sorted and summed
bqm_rows(m, bqm) ==
    [m EXCEPT !.adj_ =
        [i \in 1..Len(m.adj_) |->
            IF i <= num_variables(bqm) /\ size(bqm.adj_[i]) # 0
            THEN sort_and_sum(
                     [neighbors |-> m.adj_[i].neighbors \o bqm.adj_[i].neighbors,
                      quadratic_biases |-> m.adj_[i].quadratic_biases
                                           \o bqm.adj_[i].quadratic_biases])
            ELSE m.adj_[i]]]

\* add_bqm(bqm)
add_bqm(m, other) ==
    LET bqm == converted(m, other)
        m1 == [m EXCEPT !.offset_ = @ + bqm.offset_]
        m2 == IF num_variables(bqm) > num_variables(m1)
              THEN resize(m1, num_variables(bqm)) ELSE m1
        m3 == [m2 EXCEPT !.linear_biases_ =
                  [i \in 1..Len(m2.linear_biases_) |->
                      IF i <= num_variables(bqm)
                      THEN m2.linear_biases_[i] + bqm.linear_biases_[i]
                      ELSE m2.linear_biases_[i]]]
    IN  bqm_rows(m3, bqm)

\* add_bqm(bqm): the model of the caller when the call ends.  bqm is a
\* reference to const; the conversion is made on bqm_copy.
add_bqm_other(m, other) ==
    LET bqm_copy == IF other.vartype_ # m.vartype_
                    THEN change_vartype(other, m.vartype_) ELSE other
    IN  other

\* the guard that only rejects a mapping shorter than bqm
add_bqm_mapping_throws_if_short(other, mapping) ==
    Len(mapping) < num_variables(other)

\* add_bqm(bqm, mapping) throws std::logic_error when the lengths differ
add_bqm_mapping_throws(other, mapping) == Len(mapping) # num_variables(other)

\* the entries of row old_u of bqm appended, translated, to row new_u of m
RECURSIVE map_row(_, _, _, _, _)
map_row(m, bqm, mapping, old_u, k) ==
    IF k > size(bqm.adj_[old_u + 1]) THEN m
    ELSE LET new_u == mapping[old_u + 1]
             new_v == mapping[bqm.adj_[old_u + 1].neighbors[k] + 1]
         IN  map_row([m EXCEPT !.adj_[new_u + 1] =
                         emplace_back(@, new_v,
                                      bqm.adj_[old_u + 1].quadratic_biases[k])],
                     bqm, mapping, old_u, k + 1)

\* the loop over the variables of bqm, from old_u on
RECURSIVE map_from(_, _, _, _)
map_from(m, bqm, mapping, old_u) ==
    IF old_u >= num_variables(bqm) THEN m
    ELSE LET new_u == mapping[old_u + 1]
             m1 == [m EXCEPT !.linear_biases_[new_u + 1] =
                                 @ + bqm.linear_biases_[old_u + 1]]
         IN  map_from(map_row(m1, bqm, mapping, old_u, 1),
                      bqm, mapping, old_u + 1)

\* add_bqm(bqm, mapping), mapping non-empty and as long as bqm
add_bqm_mapping(m, other, mapping) ==
    LET bqm == converted(m, other)
        sz == SeqMax(mapping) + 1
        m1 == IF sz > num_variables(m) THEN resize(m, sz) ELSE m
        m2 == [m1 EXCEPT !.offset_ = @ + bqm.offset_]
    IN  map_from(m2, bqm, mapping, 0)

\* ------------------------------------------------------------------------
\* The inputs the operations are given.

\* the biases given to add_quadratic, set_quadratic and COO ingestion
Biases == {-Scale, Scale}

\* the entries of a dense matrix
DenseVals == {-Scale, 0, Scale}

\* the n x n dense matrices, row-major
DenseMatrices(n) == [1..(n * n) -> DenseVals]

\* the 0/1 samples and their +1/-1 encodings, s = 2 x - 1
BinarySamples(n) == [1..n -> {0, 1}]
spin_of(x) == [i \in 1..Len(x) |-> 2 * x[i] - 1]

\* The models given to add_bqm: each is constructed from a dense matrix whose
\* diagonal is 1, 2, ... and whose entry (u, v), u < v, is 1 + u + v on the
\* pairs of E and 0 elsewhere.
Pairs(n) == {p \in (0..(n - 1)) \X (0..(n - 1)) : p[1] < p[2]}

OtherDense(n, E) ==
    [k \in 1..(n * n) |->
        LET u == (k - 1) \div n
            v == (k - 1) % n
        IN  IF u = v THEN (u + 1) * Scale
            ELSE IF <<u, v>> \in E THEN (1 + u + v) * Scale
            ELSE 0]

OtherModels ==
    {ctor_dense(OtherDense(n, E), n, vt) :
        n \in 0..MaxVars, E \in SUBSET Pairs(MaxVars), vt \in Vartypes}

\* the injective mappings of n variables into 0 .. MaxVars - 1
Mappings(n) ==
    {f \in [1..n -> 0..(MaxVars - 1)] :
        \A i, j \in 1..n : i # j => f[i] # f[j]}

\* the mappings given with a model of n variables: those of its length and
\* those one shorter or one longer; none is empty when n = 0
MappingsGiven(n) ==
    UNION {Mappings(k) : k \in {n - 1, n, n + 1} \cap (0..MaxVars)}
        \ (IF n = 0 THEN {<<>>} ELSE {})

\* ------------------------------------------------------------------------
\* The state: one model, the call made last (with the model it was made on)
\* and the number of calls made.

VARIABLES bqm, last, nops, threw, neighborhood, nlast

vars == <<bqm, last, nops, threw, neighborhood, nlast>>

\* a record of a call made on a Neighborhood of its own, with the
\* Neighborhood it was made on
NoNeighborhoodCall ==
    [op |-> "none", pre |-> EmptyNeighborhood, v |-> 0, value |-> 0,
     thrown |-> "none", ret |-> 0, idx |-> 0]

\* a record of a call; the fields a call does not use keep these values
NoCall ==
    [op |-> "none", pre |-> EmptyModel("BINARY"), thrown |-> "none",
     ret |-> FALSE, u |-> 0, v |-> 0, bias |-> 0, n |-> 0,
     vartype |-> "BINARY", other |-> EmptyModel("BINARY"), mapping |-> <<>>,
     dense |-> <<>>, rows |-> <<>>, cols |-> <<>>, biases |-> <<>>,
     length |-> 0]

\* the model is constructed: BinaryQuadraticModel(n, vartype)
Init ==
    \E n \in 0..MaxVars, vt \in Vartypes :
        /\ bqm = ctor_sized(n, vt)
        /\ last = [NoCall EXCEPT !.op = "ctor", !.n = n, !.vartype = vt]
        /\ nops = 0
        /\ threw = FALSE
        /\ neighborhood = EmptyNeighborhood
        /\ nlast = NoNeighborhoodCall

\* a call that returns
Returns(m, call) ==
    /\ bqm' = m
    /\ last' = [call EXCEPT !.pre = bqm]
    /\ nops' = nops + 1
    /\ threw' = threw
    /\ UNCHANGED <<neighborhood, nlast>>

\* a call that throws, leaving the model as m
Throws(m, call, what) ==
    /\ bqm' = m
    /\ last' = [call EXCEPT !.pre = bqm, !.thrown = what]
    /\ nops' = nops + 1
    /\ threw' = TRUE
    /\ UNCHANGED <<neighborhood, nlast>>

Vars == 0..(num_variables(bqm) - 1)

Resize ==
    /\ nops < MaxOps
    /\ \E n \in 0..MaxVars :
        Returns(resize(bqm, n), [NoCall EXCEPT !.op = "resize", !.n = n])

AddQuadratic ==
    /\ nops < MaxOps
    /\ \E u \in Vars, v \in Vars, bias \in Biases \cup {0} :
        Returns(add_quadratic(bqm, u, v, bias),
                [NoCall EXCEPT !.op = "add_quadratic",
                               !.u = u, !.v = v, !.bias = bias])

SetQuadratic ==
    /\ nops < MaxOps
    /\ \E u \in Vars, v \in Vars, bias \in Biases :
        LET call == [NoCall EXCEPT !.op = "set_quadratic",
                                   !.u = u, !.v = v, !.bias = bias]
        IN  IF set_quadratic_throws(u, v)
            THEN Throws(bqm, call, "domain_error")
            ELSE Returns(set_quadratic(bqm, u, v, bias), call)

RemoveInteraction ==
    /\ nops < MaxOps
    /\ \E u \in Vars, v \in Vars :
        LET r == remove_interaction(bqm, u, v)
        IN  Returns(r.bqm, [NoCall EXCEPT !.op = "remove_interaction",
                                          !.u = u, !.v = v, !.ret = r.ret])

ChangeVartype ==
    /\ nops < MaxOps
    /\ \E vt \in Vartypes :
        Returns(change_vartype(bqm, vt),
                [NoCall EXCEPT !.op = "change_vartype", !.vartype = vt])

AddQuadraticDense ==
    /\ nops < MaxOps
    /\ \E n \in 0..MaxDense :
        /\ n <= num_variables(bqm)
        /\ \E dense \in DenseMatrices(n) :
            LET call == [NoCall EXCEPT !.op = "add_quadratic_dense",
                                       !.n = n, !.dense = dense]
                m == add_quadratic_dense(bqm, dense, n)
            IN  IF add_quadratic_dense_throws(bqm)
                THEN Throws(m, call, "logic_error")
                ELSE Returns(m, call)

AddQuadraticCoo ==
    /\ nops < MaxOps
    /\ \E length \in (-1)..MaxCoo :
        LET len == IF length < 0 THEN 1 ELSE length
        IN  \E rows \in [1..len -> 0..(MaxVars - 1)],
               cols \in [1..len -> 0..(MaxVars - 1)],
               biases \in [1..len -> Biases] :
                LET call == [NoCall EXCEPT !.op = "add_quadratic_coo",
                                           !.rows = rows, !.cols = cols,
                                           !.biases = biases, !.length = length]
                IN  IF add_quadratic_coo_throws(length)
                    THEN Throws(bqm, call, "out_of_range")
                    ELSE Returns(add_quadratic_coo(bqm, rows, cols, biases,
                                                   length), call)

AddBqm ==
    /\ nops < MaxOps
    /\ \E other \in OtherModels :
        Returns(add_bqm(bqm, other),
                [NoCall EXCEPT !.op = "add_bqm", !.other = other])

AddBqmMapping ==
    /\ nops < MaxOps
    /\ \E other \in OtherModels :
        \E mapping \in MappingsGiven(num_variables(other)) :
            LET call == [NoCall EXCEPT !.op = "add_bqm_mapping",
                                       !.other = other, !.mapping = mapping]
            IN  IF add_bqm_mapping_throws(other, mapping)
                THEN Throws(bqm, call, "logic_error")
                ELSE Returns(add_bqm_mapping(bqm, other, mapping), call)

Next ==
    \/ Resize
    \/ AddQuadratic
    \/ SetQuadratic
    \/ RemoveInteraction
    \/ ChangeVartype
    \/ AddQuadraticDense
    \/ AddQuadraticCoo
    \/ AddBqm
    \/ AddBqmMapping

Spec == Init /\ [][Next]_vars

\* add_quadratic(u, v, bias) with u or v at or above num_variables(): the
\* model as the call leaves it up to its first access to an element that
\* linear_biases_ or adj_ does not have, and whether it makes one.  On a
\* SPIN model u = v only adds to offset_.
add_quadratic_beyond(m, u, v, bias) ==
    IF u = v
    THEN IF m.vartype_ = "BINARY"
         THEN [bqm |-> m, undefined |-> TRUE]
         ELSE [bqm |-> [m EXCEPT !.offset_ = @ + bias], undefined |-> FALSE]
    ELSE IF u >= num_variables(m)
         THEN [bqm |-> m, undefined |-> TRUE]
         ELSE [bqm |-> [m EXCEPT !.adj_[u + 1] = row_add(@, v, bias)],
               undefined |-> TRUE]

\* set_quadratic(u, v, bias), u # v, with u or v at or above num_variables()
set_quadratic_beyond(m, u, v, bias) ==
    IF u >= num_variables(m)
    THEN [bqm |-> m, undefined |-> TRUE]
    ELSE [bqm |-> [m EXCEPT !.adj_[u + 1] = row_set(@, v, bias)],
          undefined |-> TRUE]

\* What a build makes of an access outside the elements of a vector: the
\* process is aborted, or the call goes on and returns with the vectors of
\* the model as they were.
UndefinedOutcomes == {"abort", "none"}

\* the end of a call that made such an access or not; no call follows one
\* that did
Ends(r, call) ==
    \E outcome \in (IF r.undefined THEN UndefinedOutcomes ELSE {"none"}) :
        /\ bqm' = r.bqm
        /\ last' = [call EXCEPT !.pre = bqm, !.thrown = outcome]
        /\ nops' = IF r.undefined THEN MaxOps ELSE nops + 1
        /\ threw' = (threw \/ outcome # "none")
        /\ UNCHANGED <<neighborhood, nlast>>

\* the pairs of indices of which one is not a variable of the model
BeyondPairs ==
    {p \in (0..MaxVars) \X (0..MaxVars) :
        p[1] >= num_variables(bqm) \/ p[2] >= num_variables(bqm)}

AddQuadraticBeyond ==
    /\ nops < MaxOps
    /\ \E p \in BeyondPairs, bias \in Biases :
        Ends(add_quadratic_beyond(bqm, p[1], p[2], bias),
             [NoCall EXCEPT !.op = "add_quadratic",
                            !.u = p[1], !.v = p[2], !.bias = bias])

SetQuadraticBeyond ==
    /\ nops < MaxOps
    /\ \E p \in BeyondPairs, bias \in Biases :
        LET call == [NoCall EXCEPT !.op = "set_quadratic",
                                   !.u = p[1], !.v = p[2], !.bias = bias]
        IN  IF set_quadratic_throws(p[1], p[2])
            THEN Throws(bqm, call, "domain_error")
            ELSE Ends(set_quadratic_beyond(bqm, p[1], p[2], bias), call)

\* The operations, the indices given to add_quadratic and set_quadratic
\* being variables of the model or not.
NextGrow ==
    \/ Next
    \/ AddQuadraticBeyond
    \/ SetQuadraticBeyond

SpecGrow == Init /\ [][NextGrow]_vars

\* ------------------------------------------------------------------------
\* A Neighborhood of its own: constructed empty, filled with emplace_back
\* and operator[], sorted with sort_and_sum, read with at and get.  nops
\* counts the calls that can add an entry.

\* the keys and the default values given
Keys == 0..(MaxVars - 1)
Defaults == {0, 3 * Scale}

InitNeighborhood ==
    /\ bqm = EmptyModel("BINARY")
    /\ last = NoCall
    /\ nops = 0
    /\ threw = FALSE
    /\ neighborhood = EmptyNeighborhood
    /\ nlast = NoNeighborhoodCall

\* the end of a call on the Neighborhood
NeighborhoodCall(nb, call, added) ==
    /\ neighborhood' = nb
    /\ nlast' = [call EXCEPT !.pre = neighborhood]
    /\ nops' = nops + added
    /\ threw' = (threw \/ call.thrown # "none")
    /\ UNCHANGED <<bqm, last>>

EmplaceBack ==
    /\ nops < MaxNb
    /\ \E v \in Keys, bias \in Biases :
        NeighborhoodCall(emplace_back(neighborhood, v, bias),
                         [NoNeighborhoodCall EXCEPT !.op = "emplace_back",
                                                    !.v = v, !.value = bias],
                         1)

SortAndSum ==
    NeighborhoodCall(sort_and_sum(neighborhood),
                     [NoNeighborhoodCall EXCEPT !.op = "sort_and_sum"], 0)

\* at(v) is a const member: the Neighborhood is left as it is
At ==
    \E v \in Keys :
        LET r == at(neighborhood, v)
        IN  NeighborhoodCall(neighborhood,
                             [NoNeighborhoodCall EXCEPT
                                 !.op = "at", !.v = v,
                                 !.thrown = r.thrown, !.ret = r.value],
                             0)

\* get(v, value) is a const member
Get ==
    \E v \in Keys, value \in Defaults :
        NeighborhoodCall(neighborhood,
                         [NoNeighborhoodCall EXCEPT
                             !.op = "get", !.v = v, !.value = value,
                             !.ret = get(neighborhood, v, value)],
                         0)

\* operator[](v): ret is the bias the reference returned refers to
Subscript ==
    /\ nops < MaxNb
    /\ \E v \in Keys :
        LET r == subscript(neighborhood, v)
        IN  NeighborhoodCall(r.nb,
                             [NoNeighborhoodCall EXCEPT
                                 !.op = "subscript", !.v = v, !.idx = r.idx,
                                 !.ret = r.nb.quadratic_biases[r.idx + 1]],
                             1)

NextNeighborhood ==
    \/ EmplaceBack
    \/ SortAndSum
    \/ At
    \/ Get
    \/ Subscript

SpecNeighborhood == InitNeighborhood /\ [][NextNeighborhood]_vars

\* The operations that end with every row they touched sorted and summed:
\* all but add_bqm(bqm, mapping).
NextSorted ==
    \/ Resize
    \/ AddQuadratic
    \/ SetQuadratic
    \/ RemoveInteraction
    \/ ChangeVartype
    \/ AddQuadraticDense
    \/ AddQuadraticCoo
    \/ AddBqm

SpecSorted == Init /\ [][NextSorted]_vars

\* ------------------------------------------------------------------------
\* What the claims speak of.

StrictlyIncreasing(s) == \A i \in 1..(Len(s) - 1) : s[i] < s[i + 1]

\* row u holds the entry (v, b)
HasEntry(m, u, v, b) ==
    \E k \in 1..size(m.adj_[u + 1]) :
        /\ m.adj_[u + 1].neighbors[k] = v
        /\ m.adj_[u + 1].quadratic_biases[k] = b

\* the biases stored anywhere in the model
StoredBiases(m) ==
    UNION {{m.adj_[i].quadratic_biases[k] : k \in 1..size(m.adj_[i])} :
              i \in 1..Len(m.adj_)}

RowSizes(m) == [i \in 1..Len(m.adj_) |-> size(m.adj_[i])]

\* every bias is a whole number of 1/Scale that change_vartype scales exactly
DyadicOK ==
    LET lin_unit == IF bqm.vartype_ = "BINARY" THEN Scale \div 2 ELSE Scale \div 4
        quad_unit == IF bqm.vartype_ = "BINARY" THEN Scale ELSE Scale \div 4
    IN  /\ \A i \in 1..Len(bqm.linear_biases_) :
               bqm.linear_biases_[i] % lin_unit = 0
        /\ \A i \in 1..Len(bqm.adj_) :
               \A k \in 1..size(bqm.adj_[i]) :
                   bqm.adj_[i].quadratic_biases[k] % quad_unit = 0

\* C1: after any sequence of operations that return, the keys of every row
\* are strictly increasing (sorted ascending, no key twice).
C1_RowsStrictlyIncreasing ==
    ~threw =>
        \A i \in 1..Len(bqm.adj_) : StrictlyIncreasing(bqm.adj_[i].neighbors)

\* C2: storage is symmetric: for in-range u # v, row u holds (v, b) exactly
\* when row v holds (u, b), and quadratic(u, v) = quadratic(v, u).
C2_SymmetricStorage ==
    ~threw =>
        \A u \in Vars, v \in Vars :
            u # v =>
                /\ \A b \in StoredBiases(bqm) :
                       HasEntry(bqm, u, v, b) <=> HasEntry(bqm, v, u, b)
                /\ quadratic(bqm, u, v) = quadratic(bqm, v, u)

\* C3: in every reachable state 2 * num_interactions() is the sum over the
\* variables v of num_interactions(v).
C3_InteractionsCountedTwice ==
    2 * num_interactions(bqm) = SeqSum(RowSizes(bqm))

\* the last call was a change_vartype that changed the vartype
Converted ==
    /\ last.op = "change_vartype"
    /\ last.thrown = "none"
    /\ last.vartype # last.pre.vartype_

\* C4: change_vartype preserves energy: the energy of the BINARY form at x
\* is the energy of the SPIN form at s = 2 x - 1, for every 0/1 sample x,
\* whichever form was converted into the other.
C4_EnergyPreserved ==
    Converted =>
        LET bin == IF bqm.vartype_ = "BINARY" THEN bqm ELSE last.pre
            spn == IF bqm.vartype_ = "BINARY" THEN last.pre ELSE bqm
        IN  \A x \in BinarySamples(num_variables(bqm)) :
                energy(bin, x) = energy(spn, spin_of(x))

\* the keys of every row: the interacting pairs as they are stored
RowKeys(m) == [i \in 1..Len(m.adj_) |-> m.adj_[i].neighbors]

\* C5: change_vartype(Y) then change_vartype(X), from a model of vartype
\* X # Y, restores every linear bias, every quadratic bias and the offset,
\* and num_variables and the stored pairs stay as they were throughout.
C5_RoundTrip ==
    Converted =>
        LET back == change_vartype(bqm, last.pre.vartype_)
        IN  /\ back.vartype_ = last.pre.vartype_
            /\ back.linear_biases_ = last.pre.linear_biases_
            /\ back.adj_ = last.pre.adj_
            /\ back.offset_ = last.pre.offset_
            /\ num_variables(bqm) = num_variables(last.pre)
            /\ RowKeys(bqm) = RowKeys(last.pre)

\* a conversion of a model that has an interaction, a linear bias and an
\* offset, all of which the conversion changed
C5_Witness ==
    /\ Converted
    /\ ~is_linear(last.pre)
    /\ last.pre.offset_ # 0
    /\ \E i \in 1..Len(last.pre.linear_biases_) : last.pre.linear_biases_[i] # 0
    /\ bqm.offset_ # last.pre.offset_
    /\ bqm.linear_biases_ # last.pre.linear_biases_
    /\ bqm.adj_ # last.pre.adj_

\* ------------------------------------------------------------------------
\* The values before a call, read as 0 where the variable did not exist.

InRange(m, u) == 0 <= u /\ u < num_variables(m)

OldLinear(m, u) == IF InRange(m, u) THEN linear(m, u) ELSE 0

OldQuadratic(m, u, v) ==
    IF InRange(m, u) /\ InRange(m, v) THEN quadratic(m, u, v) ELSE 0

\* quadratic_at(u, v) returns a bias
Interacts(m, u, v) ==
    InRange(m, u) /\ InRange(m, v) /\ quadratic_at(m, u, v).thrown = "none"

Max(a, b) == IF a >= b THEN a ELSE b

\* the last call was a COO add_quadratic that returned
CooReturned == last.op = "add_quadratic_coo" /\ last.thrown = "none"

\* the biases of the COO entries whose (row, col) is (u, v), added up
CooSum(u, v) ==
    SeqSum([k \in 1..last.length |->
               IF last.rows[k] = u /\ last.cols[k] = v
               THEN last.biases[k] ELSE 0])

\* the number of COO entries that are off the diagonal and touch u
CooTouches(u) ==
    Cardinality({k \in 1..last.length :
                    /\ last.rows[k] # last.cols[k]
                    /\ (last.rows[k] = u \/ last.cols[k] = u)})

\* C6: COO add_quadratic yields num_variables() = max(old, 1 + the largest
\* index); quadratic(u, v), u # v, grows by the biases of the entries at
\* (u, v) and (v, u); a pair with no entry and no interaction stays absent.
C6_CooIngestion ==
    CooReturned =>
        LET old == last.pre
            top == IF last.length = 0 THEN 0
                   ELSE 1 + Max(SeqMax(last.rows), SeqMax(last.cols))
        IN  /\ num_variables(bqm) = Max(num_variables(old), top)
            /\ \A u \in Vars, v \in Vars :
                   u # v =>
                       /\ quadratic(bqm, u, v) =
                              OldQuadratic(old, u, v) + CooSum(u, v) + CooSum(v, u)
                       /\ (/\ \A k \in 1..last.length :
                                  {last.rows[k], last.cols[k]} # {u, v}
                           /\ ~Interacts(old, u, v))
                          => ~Interacts(bqm, u, v)

\* ------------------------------------------------------------------------
\* Self-loops.

\* the biases of the COO entries on the diagonal at u, added up
CooDiagonal(u) == CooSum(u, u)

\* the biases of all COO entries on the diagonal, added up
CooDiagonalTotal ==
    SeqSum([k \in 1..last.length |->
               IF last.rows[k] = last.cols[k] THEN last.biases[k] ELSE 0])

\* the last call was a dense add_quadratic that returned
DenseReturned == last.op = "add_quadratic_dense" /\ last.thrown = "none"

DenseDiagonalTotal ==
    SeqSum([v \in 1..last.n |-> dense_at(last.dense, last.n, v - 1, v - 1)])

\* the number of nonzero off-diagonal sums of the dense matrix in row u
DenseTouches(u) ==
    IF u >= last.n THEN 0
    ELSE Cardinality({v \in 0..(last.n - 1) :
                         /\ v # u
                         /\ dense_at(last.dense, last.n, u, v)
                            + dense_at(last.dense, last.n, v, u) # 0})

\* the self-loop biases a call gave for variable u, and for all variables
SelfLoopAt(u) ==
    IF last.op = "add_quadratic" THEN (IF last.u = u THEN last.bias ELSE 0)
    ELSE IF last.op = "add_quadratic_coo" THEN CooDiagonal(u)
    ELSE IF u < last.n THEN dense_at(last.dense, last.n, u, u) ELSE 0

SelfLoopTotal ==
    IF last.op = "add_quadratic" THEN last.bias
    ELSE IF last.op = "add_quadratic_coo" THEN CooDiagonalTotal
    ELSE DenseDiagonalTotal

\* the entries a call gave off the diagonal that touch variable u
OffDiagonalAt(u) ==
    IF last.op = "add_quadratic" THEN 0
    ELSE IF last.op = "add_quadratic_coo" THEN CooTouches(u)
    ELSE DenseTouches(u)

\* the last call returned and gave self-loop terms
GaveSelfLoops ==
    \/ last.op = "add_quadratic" /\ last.u = last.v
    \/ CooReturned
    \/ DenseReturned

\* C7: a self-loop term of bias b on u, given through add_quadratic(u, u,
\* b), a COO entry with row = col = u or a dense diagonal entry, adds b to
\* offset on a SPIN model and leaves every linear bias as it was, adds b to
\* linear(u) on a BINARY model and leaves offset as it was, and adds no
\* entry to any row.
C7_SelfLoopRouting ==
    GaveSelfLoops =>
        LET old == last.pre
        IN  /\ bqm.vartype_ = old.vartype_
            /\ bqm.vartype_ = "SPIN" =>
                   /\ bqm.offset_ = old.offset_ + SelfLoopTotal
                   /\ \A u \in Vars : linear(bqm, u) = OldLinear(old, u)
            /\ bqm.vartype_ = "BINARY" =>
                   /\ bqm.offset_ = old.offset_
                   /\ \A u \in Vars :
                          linear(bqm, u) = OldLinear(old, u) + SelfLoopAt(u)
            /\ \A u \in Vars :
                   /\ size(bqm.adj_[u + 1]) <=
                          (IF InRange(old, u) THEN size(old.adj_[u + 1]) ELSE 0)
                          + OffDiagonalAt(u)
                   /\ OffDiagonalAt(u) = 0 /\ InRange(old, u)
                          => bqm.adj_[u + 1] = old.adj_[u + 1]

\* the three ways in, each with a nonzero self-loop term that was routed
C7_Witness ==
    /\ GaveSelfLoops
    /\ SelfLoopTotal # 0
    /\ \/ last.op = "add_quadratic" /\ ~is_linear(last.pre)
       \/ /\ last.op = "add_quadratic_coo"
          /\ \E u \in Vars : OffDiagonalAt(u) > 0
       \/ /\ last.op = "add_quadratic_dense"
          /\ \E u \in Vars : OffDiagonalAt(u) > 0
          /\ bqm.vartype_ = "BINARY"

\* ------------------------------------------------------------------------
\* BinaryQuadraticModel(dense, num_variables, vartype): the delegated
\* constructor has sized the model, the body ingests the matrix.

InitDense ==
    \E n \in 0..MaxVars, vt \in Vartypes : \E dense \in DenseMatrices(n) :
        /\ bqm = ctor_sized(n, vt)
        /\ last = [NoCall EXCEPT !.op = "ctor", !.n = n, !.vartype = vt,
                                 !.dense = dense]
        /\ nops = 0
        /\ threw = FALSE
        /\ neighborhood = EmptyNeighborhood
        /\ nlast = NoNeighborhoodCall

ConstructDense ==
    /\ last.op = "ctor"
    /\ bqm' = ctor_dense(last.dense, last.n, last.vartype)
    /\ last' = [last EXCEPT !.op = "ctor_dense", !.pre = bqm]
    /\ nops' = nops
    /\ threw' = threw
    /\ UNCHANGED <<neighborhood, nlast>>

NextDense == ConstructDense

SpecDense == InitDense /\ [][NextDense]_vars

\* dense[i][j] + dense[j][i]
DenseSum(i, j) ==
    dense_at(last.dense, last.n, i, j) + dense_at(last.dense, last.n, j, i)

\* C8: a model constructed from a dense n x n matrix has, for every i < j,
\* quadratic(i, j) = quadratic(j, i) = dense[i][j] + dense[j][i]; a pair
\* whose entries add up to zero is not stored (quadratic_at fails on it,
\* num_interactions() does not count it); every row iterates its neighbors
\* in ascending index order.
C8_DenseConstruction ==
    last.op = "ctor_dense" =>
        /\ num_variables(bqm) = last.n
        /\ \A p \in Pairs(last.n) :
               LET i == p[1]
                   j == p[2]
               IN  /\ quadratic(bqm, i, j) = DenseSum(i, j)
                   /\ quadratic(bqm, j, i) = DenseSum(i, j)
                   /\ DenseSum(i, j) = 0 =>
                          /\ quadratic_at(bqm, i, j).thrown = "out_of_range"
                          /\ quadratic_at(bqm, j, i).thrown = "out_of_range"
                   /\ DenseSum(i, j) # 0 =>
                          /\ quadratic_at(bqm, i, j).thrown = "none"
                          /\ quadratic_at(bqm, j, i).thrown = "none"
        /\ num_interactions(bqm) =
               Cardinality({p \in Pairs(last.n) : DenseSum(p[1], p[2]) # 0})
        /\ \A i \in 1..Len(bqm.adj_) : StrictlyIncreasing(bqm.adj_[i].neighbors)

\* a 3 x 3 matrix with a pair that cancels, -1 + 1, beside pairs that do
\* not, so that a row holds two neighbors
C8_Witness ==
    /\ last.op = "ctor_dense"
    /\ last.n = MaxVars
    /\ \E p \in Pairs(last.n) :
           /\ DenseSum(p[1], p[2]) = 0
           /\ dense_at(last.dense, last.n, p[1], p[2]) # 0
    /\ \E i \in 1..Len(bqm.adj_) : size(bqm.adj_[i]) >= 2

\* ------------------------------------------------------------------------
\* add_bqm.

\* the pairs u < v that quadratic_at finds
Edges(m) ==
    {p \in Pairs(num_variables(m)) : Interacts(m, p[1], p[2])}

\* C9: add_bqm(other), other of the same vartype, yields num_variables() =
\* the larger of the two, offset = the sum of the offsets, linear(v) = the
\* sum of the linear biases, quadratic(u, v) = the sum of the quadratic
\* biases, each pair stored once: num_interactions() is the size of the
\* union of the two edge sets.
C9_AddBqm ==
    (last.op = "add_bqm" /\ last.other.vartype_ = last.pre.vartype_) =>
        LET old == last.pre
            other == last.other
        IN  /\ num_variables(bqm) = Max(num_variables(old), num_variables(other))
            /\ bqm.offset_ = old.offset_ + other.offset_
            /\ \A v \in Vars :
                   linear(bqm, v) = OldLinear(old, v) + OldLinear(other, v)
            /\ \A u \in Vars, v \in Vars :
                   u # v =>
                       quadratic(bqm, u, v) =
                           OldQuadratic(old, u, v) + OldQuadratic(other, u, v)
            /\ num_interactions(bqm) = Cardinality(Edges(old) \cup Edges(other))

\* the pair {u, v} with the smaller index first
Ordered(u, v) == IF u < v THEN <<u, v>> ELSE <<v, u>>

C11_AddBqmOtherVartype ==
    (last.op = "add_bqm" /\ last.other.vartype_ # last.pre.vartype_) =>
        LET copy == change_vartype(last.other, last.pre.vartype_)
        IN  /\ copy.vartype_ = last.pre.vartype_
            /\ bqm = add_bqm(last.pre, copy)
            /\ add_bqm_other(last.pre, last.other) = last.other
            /\ bqm.vartype_ = last.pre.vartype_

\* a model with an interaction was given a model of the other vartype that
\* has interactions, and the conversion changed the biases added
C11_Witness ==
    /\ last.op = "add_bqm"
    /\ last.other.vartype_ # last.pre.vartype_
    /\ ~is_linear(last.pre)
    /\ ~is_linear(last.other)
    /\ num_variables(last.other) > num_variables(last.pre)
    /\ bqm # [add_bqm(last.pre, [last.other EXCEPT
                                    !.vartype_ = last.pre.vartype_])
                 EXCEPT !.vartype_ = bqm.vartype_]

\* ------------------------------------------------------------------------
\* C18: add_bqm(other, mapping) with a mapping whose length is not
\* other.num_variables() throws the length error, whether the vartypes are
\* the same or not, and leaves the model and other as they were.
C18_MappingLengthMismatch ==
    (last.op = "add_bqm_mapping"
        /\ Len(last.mapping) # num_variables(last.other)) =>
        /\ last.thrown = "logic_error"
        /\ bqm = last.pre
        /\ add_bqm_other(last.pre, last.other) = last.other

\* a mapping that is too long was given with a model of the other vartype to
\* a model that has interactions
C18_Witness ==
    /\ last.op = "add_bqm_mapping"
    /\ Len(last.mapping) > num_variables(last.other)
    /\ last.other.vartype_ # last.pre.vartype_
    /\ ~is_linear(last.other)
    /\ ~is_linear(last.pre)
    /\ last.thrown = "logic_error"

\* ------------------------------------------------------------------------
\* the interactions of m between variables below n
EdgesBelow(m, n) == {p \in Edges(m) : p[2] < n}

\* C12: resize(n), n below num_variables(), leaves no row of a variable
\* below n with a neighbor at or above n; num_interactions() is then the
\* number of the old interactions with both ends below n, and each of these
\* keeps its bias.
C12_ResizeShrink ==
    (last.op = "resize" /\ last.n < num_variables(last.pre)) =>
        /\ num_variables(bqm) = last.n
        /\ \A u \in Vars :
               \A k \in 1..size(bqm.adj_[u + 1]) :
                   bqm.adj_[u + 1].neighbors[k] < last.n
        /\ num_interactions(bqm) = Cardinality(EdgesBelow(last.pre, last.n))
        /\ \A p \in EdgesBelow(last.pre, last.n) :
               /\ quadratic_at(bqm, p[1], p[2]) = quadratic_at(last.pre, p[1], p[2])
               /\ quadratic_at(bqm, p[2], p[1]) = quadratic_at(last.pre, p[2], p[1])

\* ------------------------------------------------------------------------
\* C13: remove_interaction(u, v): when the pair has an interaction the call
\* returns true, quadratic(u, v) and quadratic(v, u) are 0 afterwards, the
\* pair is in neither row and num_interactions() is one less; when it has
\* none the call returns false and the model is as it was.
C13_RemoveInteraction ==
    last.op = "remove_interaction" =>
        LET old == last.pre
            u == last.u
            v == last.v
        IN  IF Interacts(old, u, v) \/ Interacts(old, v, u)
            THEN /\ last.ret = TRUE
                 /\ quadratic(bqm, u, v) = 0
                 /\ quadratic(bqm, v, u) = 0
                 /\ \A b \in StoredBiases(bqm) :
                        ~HasEntry(bqm, u, v, b) /\ ~HasEntry(bqm, v, u, b)
                 /\ num_interactions(bqm) = num_interactions(old) - 1
            ELSE /\ last.ret = FALSE
                 /\ bqm = old

\* ------------------------------------------------------------------------
\* C14: set_quadratic(u, v, bias), u # v both variables, overwrites:
\* quadratic(u, v) = quadratic(v, u) = bias afterwards whatever was there, a
\* pair without an interaction gets one, and every other interaction, every
\* linear bias and the offset are as they were.
C14_SetQuadratic ==
    (last.op = "set_quadratic" /\ last.u # last.v) =>
        LET old == last.pre
            u == last.u
            v == last.v
        IN  /\ last.thrown = "none"
            /\ quadratic_at(bqm, u, v) = [thrown |-> "none", value |-> last.bias]
            /\ quadratic_at(bqm, v, u) = [thrown |-> "none", value |-> last.bias]
            /\ num_variables(bqm) = num_variables(old)
            /\ \A a \in Vars, b \in Vars :
                   (a # b /\ {a, b} # {u, v}) =>
                       quadratic_at(bqm, a, b) = quadratic_at(old, a, b)
            /\ bqm.linear_biases_ = old.linear_biases_
            /\ bqm.offset_ = old.offset_
            /\ bqm.vartype_ = old.vartype_

\* ------------------------------------------------------------------------
\* the sum of f over the finite set S
RECURSIVE SumOver(_, _)
SumOver(f, S) ==
    IF S = {} THEN 0
    ELSE LET x == CHOOSE y \in S : TRUE
         IN  f[x] + SumOver(f, S \ {x})

\* offset + sum of linear(u) x_u + sum, over the pairs {u, v} that have an
\* interaction, of quadratic(u, v) x_u x_v
ExpectedEnergy(m, x) ==
    LET n == num_variables(m)
        lin == [u \in 0..(n - 1) |-> linear(m, u) * x[u + 1]]
        quad == [p \in Edges(m) |->
                    quadratic(m, p[1], p[2]) * x[p[1] + 1] * x[p[2] + 1]]
    IN  m.offset_ + SumOver(lin, 0..(n - 1)) + SumOver(quad, Edges(m))

\* the samples of a model: 0/1 values, or -1/+1 values on a SPIN model
Samples(m) ==
    IF m.vartype_ = "BINARY" THEN BinarySamples(num_variables(m))
    ELSE {spin_of(x) : x \in BinarySamples(num_variables(m))}

\* C16: after operations that returned, energy(sample) of a sample of
\* num_variables() values is offset + sum of linear(u) x_u + sum over the
\* pairs with an interaction of quadratic(u, v) x_u x_v, each pair once.
C16_Energy ==
    ~threw =>
        \A x \in Samples(bqm) : energy(bqm, x) = ExpectedEnergy(bqm, x)

\* ------------------------------------------------------------------------
\* C17: set_quadratic(u, u, bias) throws the domain error for every u and
\* bias, and the model is as it was before the call.
C17_SetQuadraticSelfLoop ==
    (last.op = "set_quadratic" /\ last.u = last.v) =>
        /\ last.thrown = "domain_error"
        /\ bqm = last.pre

\* the call was made on a model in which u has an interaction and, when the
\* model is BINARY, a linear bias
C17_Witness ==
    /\ last.op = "set_quadratic"
    /\ last.u = last.v
    /\ last.thrown = "domain_error"
    /\ size(last.pre.adj_[last.u + 1]) > 0
    /\ last.pre.vartype_ = "BINARY" => linear(last.pre, last.u) # 0

\* ------------------------------------------------------------------------
\* C19: the COO add_quadratic with a negative length throws before it does
\* anything: the model is not grown and no row, linear bias or offset is
\* changed.
C19_CooNegativeLength ==
    (last.op = "add_quadratic_coo" /\ last.length < 0) =>
        /\ last.thrown = "out_of_range"
        /\ num_variables(bqm) = num_variables(last.pre)
        /\ bqm = last.pre

\* the arrays given with the negative length hold an index that is not a
\* variable of the model and an off-diagonal entry
C19_Witness ==
    /\ last.op = "add_quadratic_coo"
    /\ last.length < 0
    /\ last.thrown = "out_of_range"
    /\ last.rows[1] >= num_variables(last.pre)
    /\ last.rows[1] # last.cols[1]

\* ------------------------------------------------------------------------
\* row s begins with row r, entry for entry
IsPrefix(r, s) ==
    /\ size(r) <= size(s)
    /\ SubSeq(s.neighbors, 1, size(r)) = r.neighbors
    /\ SubSeq(s.quadratic_biases, 1, size(r)) = r.quadratic_biases

\* C20: add_quadratic(dense, n) on a model that has an interaction throws
\* the not-implemented error and does not merge the entries of the matrix
\* into the rows with sort_and_sum: every row there was is still there,
\* entry for entry, at the front of its row.
C20_DenseNotImplemented ==
    (last.op = "add_quadratic_dense" /\ ~is_linear(last.pre)) =>
        /\ last.thrown = "logic_error"
        /\ \A u \in Vars : IsPrefix(last.pre.adj_[u + 1], bqm.adj_[u + 1])

\* the matrix had a nonzero sum for a pair: sort_and_sum would have changed
\* a row the call left
C20_Witness ==
    /\ last.op = "add_quadratic_dense"
    /\ ~is_linear(last.pre)
    /\ last.thrown = "logic_error"
    /\ \E u \in Vars : sort_and_sum(bqm.adj_[u + 1]) # bqm.adj_[u + 1]

\* ------------------------------------------------------------------------
\* the set of the elements of a sequence
Range(s) == {s[i] : i \in 1..Len(s)}

\* the call made last is a mutator that was given indices and did not fail
\* on its arguments
GaveIndices ==
    \/ last.op = "add_quadratic"
    \/ last.op = "set_quadratic" /\ last.u # last.v
    \/ last.op = "add_quadratic_coo" /\ last.length > 0
    \/ last.op = "add_bqm" /\ num_variables(last.other) > 0
    \/ /\ last.op = "add_bqm_mapping"
       /\ Len(last.mapping) = num_variables(last.other)

\* the variable indices the call made last was given
GivenIndices ==
    CASE last.op \in {"add_quadratic", "set_quadratic"} -> {last.u, last.v}
      [] last.op = "add_quadratic_coo" ->
             Range(SubSeq(last.rows, 1, last.length))
                 \cup Range(SubSeq(last.cols, 1, last.length))
      [] last.op = "add_bqm" -> 0..(num_variables(last.other) - 1)
      [] last.op = "add_bqm_mapping" -> Range(last.mapping)
      [] OTHER -> {}

\* C15: a mutator given a variable index at or above num_variables()
\* (add_quadratic(u, v, bias), set_quadratic(u, v, bias), the COO
\* add_quadratic, add_bqm) grows the model so that the index is a variable,
\* the variables added having a linear bias of 0 and an empty row until the
\* call itself writes them, and makes no access outside the variables.
C15_AutoGrow ==
    (GaveIndices /\ \E i \in GivenIndices : i >= num_variables(last.pre)) =>
        /\ last.thrown = "none"
        /\ \A i \in GivenIndices : i < num_variables(bqm)
        /\ \A w \in Vars :
               (w >= num_variables(last.pre) /\ w \notin GivenIndices) =>
                   linear(bqm, w) = 0 /\ size(bqm.adj_[w + 1]) = 0

\* ------------------------------------------------------------------------
\* the positions of key v in nb, and the sum of the biases stored there
PositionsOf(nb, v) == {i \in 1..size(nb) : nb.neighbors[i] = v}

BiasSum(nb, v) ==
    SumOver([i \in PositionsOf(nb, v) |-> nb.quadratic_biases[i]],
            PositionsOf(nb, v))

\* the keys of nb are sorted and no key is there twice
SortedUnique(nb) == StrictlyIncreasing(nb.neighbors)

\* C21: sort_and_sum, whatever the order of the entries and the duplicates
\* among them, leaves the keys strictly increasing, keeps exactly the keys
\* there were and gives each key the sum of the biases that were stored
\* under it; an empty or sorted-unique Neighborhood is left as it is.
C21_SortAndSum ==
    nlast.op = "sort_and_sum" =>
        /\ StrictlyIncreasing(neighborhood.neighbors)
        /\ Len(neighborhood.quadratic_biases) = Len(neighborhood.neighbors)
        /\ Range(neighborhood.neighbors) = Range(nlast.pre.neighbors)
        /\ \A v \in Range(nlast.pre.neighbors) :
               BiasSum(neighborhood, v) = BiasSum(nlast.pre, v)
        /\ SortedUnique(nlast.pre) => neighborhood = nlast.pre

\* the entries were out of order, a key was there more than once with
\* another key between its entries, and another key was there once
C21_Witness ==
    /\ nlast.op = "sort_and_sum"
    /\ ~is_sorted(nlast.pre.neighbors)
    /\ \E i, j, k \in 1..size(nlast.pre) :
           /\ i < j /\ j < k
           /\ nlast.pre.neighbors[i] = nlast.pre.neighbors[k]
           /\ nlast.pre.neighbors[j] # nlast.pre.neighbors[i]
    /\ size(neighborhood) >= 2
    /\ size(neighborhood) < size(nlast.pre)

\* ------------------------------------------------------------------------
\* C22: on a sorted-unique Neighborhood, get(v, value) and at(v) leave the
\* Neighborhood as it is, at throws on a key that is not there and get
\* returns the default; operator[](v) on a key that is not there inserts one
\* entry of bias 0 where the keys stay sorted, and on a key that is there
\* inserts nothing and refers to the bias stored.
C22_LookupsAndUpsert ==
    SortedUnique(nlast.pre) =>
        LET old == nlast.pre
            v == nlast.v
            there == PositionsOf(old, v) # {}
        IN  /\ nlast.op = "get" =>
                   /\ neighborhood = old
                   /\ nlast.ret = IF there THEN BiasSum(old, v) ELSE nlast.value
            /\ nlast.op = "at" =>
                   /\ neighborhood = old
                   /\ there => nlast.thrown = "none" /\ nlast.ret = BiasSum(old, v)
                   /\ ~there => nlast.thrown = "out_of_range"
            /\ (nlast.op = "subscript" /\ ~there) =>
                   /\ size(neighborhood) = size(old) + 1
                   /\ SortedUnique(neighborhood)
                   /\ Range(neighborhood.neighbors) = Range(old.neighbors) \cup {v}
                   /\ \A w \in Range(old.neighbors) :
                          BiasSum(neighborhood, w) = BiasSum(old, w)
                   /\ BiasSum(neighborhood, v) = 0
                   /\ neighborhood.neighbors[nlast.idx + 1] = v
                   /\ nlast.ret = 0
            /\ (nlast.op = "subscript" /\ there) =>
                   /\ neighborhood = old
                   /\ neighborhood.neighbors[nlast.idx + 1] = v
                   /\ nlast.ret = BiasSum(old, v)

\* operator[] inserted a key between two keys of a sorted-unique
\* Neighborhood
C22_Witness ==
    /\ nlast.op = "subscript"
    /\ SortedUnique(nlast.pre)
    /\ size(nlast.pre) >= 2
    /\ PositionsOf(nlast.pre, nlast.v) = {}
    /\ nlast.idx > 0
    /\ nlast.idx < size(nlast.pre)

\* ------------------------------------------------------------------------
\* C23: after any sequence of operations (the mappings given to add_bqm
\* being injective) the row of no variable u holds the key u.
C23_NoSelfLoopStored ==
    \A u \in Vars : u \notin Range(bqm.adj_[u + 1].neighbors)

\* a COO call gave a self-loop term for a variable and an entry off the
\* diagonal that touches the same variable
C23_Witness ==
    /\ CooReturned
    /\ \E u \in Vars :
           /\ CooDiagonal(u) # 0
           /\ CooTouches(u) > 0
           /\ size(bqm.adj_[u + 1]) > 0

\* ------------------------------------------------------------------------
\* the pair has no interaction: neither row holds the other variable
NoInteraction(m, u, v) ==
    /\ v \notin Range(m.adj_[u + 1].neighbors)
    /\ u \notin Range(m.adj_[v + 1].neighbors)

\* the look-up of the pair, either way, returns b
StoredAs(m, u, v, b) ==
    /\ quadratic_at(m, u, v) = [thrown |-> "none", value |-> b]
    /\ quadratic_at(m, v, u) = [thrown |-> "none", value |-> b]

\* the COO entries given for the pair {u, v}
CooEntries(u, v) ==
    {k \in 1..last.length : {last.rows[k], last.cols[k]} = {u, v}}

\* C24: add_quadratic(u, v, 0), u # v, on a pair without an interaction
\* creates one: num_interactions() grows by 1 and quadratic_at(u, v) returns
\* 0; COO entries for a pair whose biases add up to 0 leave an interaction
\* of bias 0; the dense add_quadratic skips a pair whose sum is 0.
C24_ZeroBiasStored ==
    /\ (last.op = "add_quadratic" /\ last.u # last.v /\ last.bias = 0
            /\ NoInteraction(last.pre, last.u, last.v)) =>
           /\ num_interactions(bqm) = num_interactions(last.pre) + 1
           /\ StoredAs(bqm, last.u, last.v, 0)
    /\ CooReturned =>
           \A u \in Vars, v \in Vars :
               (/\ u # v
                /\ CooEntries(u, v) # {}
                /\ CooSum(u, v) + CooSum(v, u) = 0
                /\ ~InRange(last.pre, u) \/ ~InRange(last.pre, v)
                       \/ NoInteraction(last.pre, u, v)) =>
                   StoredAs(bqm, u, v, 0)
    /\ DenseReturned =>
           \A p \in Pairs(last.n) :
               dense_at(last.dense, last.n, p[1], p[2])
                   + dense_at(last.dense, last.n, p[2], p[1]) = 0
                   => NoInteraction(bqm, p[1], p[2])

\* add_quadratic(u, v, 0) was called on a pair without an interaction in a
\* model that has one
C24_Witness ==
    /\ last.op = "add_quadratic"
    /\ last.u # last.v
    /\ last.bias = 0
    /\ NoInteraction(last.pre, last.u, last.v)
    /\ ~is_linear(last.pre)

\* ------------------------------------------------------------------------
\* the keys the dense add_quadratic appends to row u: the v # u below n
\* whose sum with u is not 0, in increasing order
DenseAppended(u) ==
    IF u >= last.n THEN <<>>
    ELSE SelectSeq([i \in 1..last.n |-> i - 1],
                   LAMBDA v : v # u /\ dense_at(last.dense, last.n, u, v)
                                      + dense_at(last.dense, last.n, v, u) # 0)

\* C25: when the dense add_quadratic fails on a model that had an
\* interaction, the off-diagonal pass is over and the diagonal pass has not
\* begun: every linear bias and the offset are as they were, and each
\* nonzero sum dense[u][v] + dense[v][u] is appended to the rows of u and v.
C25_DenseFailsBetweenPasses ==
    (last.op = "add_quadratic_dense" /\ last.thrown = "logic_error") =>
        /\ ~is_linear(last.pre)
        /\ bqm.linear_biases_ = last.pre.linear_biases_
        /\ bqm.offset_ = last.pre.offset_
        /\ \A u \in Vars :
               LET keys == DenseAppended(u)
               IN  /\ bqm.adj_[u + 1].neighbors =
                          last.pre.adj_[u + 1].neighbors \o keys
                   /\ bqm.adj_[u + 1].quadratic_biases =
                          last.pre.adj_[u + 1].quadratic_biases
                          \o [i \in 1..Len(keys) |->
                                 dense_at(last.dense, last.n, u, keys[i])
                                 + dense_at(last.dense, last.n, keys[i], u)]

\* the matrix of the failed call had a nonzero diagonal entry and a nonzero
\* sum off the diagonal
C25_Witness ==
    /\ last.op = "add_quadratic_dense"
    /\ last.thrown = "logic_error"
    /\ \E u \in Vars : Len(DenseAppended(u)) > 0
    /\ \E v \in 0..(last.n - 1) : dense_at(last.dense, last.n, v, v) # 0

====
